---- MODULE Spec2Model ----
(***************************************************************************)
(* Ext4Fs (service/gcsutils/fs/ext4.go): the ext4 size estimator and the   *)
(* mkfs.ext4 driver of opengcs.                                            *)
(*                                                                         *)
(* The four fields of Ext4Fs are Go uint64.  TLC's integers are 32 bits    *)
(* wide, so a uint64 is held as four base-2^16 digits, least significant   *)
(* first, and +, -, * and % are the digit-wise operations below: every sum *)
(* wraps modulo 2^64 exactly as the Go operators do.                       *)
(*                                                                         *)
(* The methods check no calling order, so the model lets them be called in *)
(* any order.  Spec draws file sizes from the range the type's comment     *)
(* assumes (regular files <= 128MB); SpecAny draws them from all of uint64.*)
(* Names, device numbers and attribute data are only logged and are left   *)
(* out; a symlink target is its length.                                    *)
(***************************************************************************)
EXTENDS Integers, Sequences, FiniteSets, TLC

VARIABLES
    BlockSize,   \* e.BlockSize (uint64)
    InodeSize,   \* e.InodeSize (uint64)
    totalSize,   \* e.totalSize (uint64)
    numInodes,   \* e.numInodes (uint64)
    pc,          \* where MakeFileSystem's caller is: "idle", "mkfs" (exec.Command(...).Run()), "sleep" (time.Sleep)
    panicked,    \* a runtime panic (integer divide by zero) has ended the process
    phase,       \* history: "new" (constructed or cleaned up), "open" (InitSizeContext done), "final" (FinalizeSizeContext done)
    dirty,       \* history: an add* or FinalizeSizeContext ran outside the "open" phase since the last InitSizeContext
    lastOp,      \* history: the method that returned (or panicked) last
    lastArg,     \* history: its size argument (fileSize, or len(dstName)) as a uint64
    lastErr,     \* history: the error it returned, "nil" or "err"
    sizeInfo,    \* history: the FilesystemSizeInfo the last GetSizeInfo returned
    slept,       \* history: hours MakeFileSystem slept before its last return
    before,      \* history: the counters and the phase when the last call was made
    calls        \* history: number of method calls made so far

vars == <<BlockSize, InodeSize, totalSize, numInodes, pc, panicked, phase, dirty,
          lastOp, lastArg, lastErr, sizeInfo, slept, before, calls>>

----------------------------------------------------------------------------
(* uint64 arithmetic on digit sequences                                    *)

Base == 2^16

\* the uint64 of a small integer 0 <= n < 2^31
U64(n) == <<n % Base, n \div Base, 0, 0>>

Zero == U64(0)
One == U64(1)

\* the integer of a uint64 below 2^31
ToInt(a) == a[1] + (a[2] * Base)

RECURSIVE CarryAdd(_, _, _)
CarryAdd(a, b, i) ==
    IF i = 0 THEN 0 ELSE (a[i] + b[i] + CarryAdd(a, b, i - 1)) \div Base

\* a + b on Len(a) digits, the carry out of the top digit dropped
AddN(a, b) == [i \in 1..Len(a) |-> (a[i] + b[i] + CarryAdd(a, b, i - 1)) % Base]

RECURSIVE BorrowSub(_, _, _)
BorrowSub(a, b, i) ==
    IF i = 0 THEN 0 ELSE IF a[i] - b[i] - BorrowSub(a, b, i - 1) < 0 THEN 1 ELSE 0

\* a - b on Len(a) digits, wrapping
SubN(a, b) == [i \in 1..Len(a) |-> (a[i] - b[i] - BorrowSub(a, b, i - 1) + Base) % Base]

RECURSIVE CarryMul(_, _, _)
CarryMul(a, c, i) ==
    IF i = 0 THEN 0 ELSE ((a[i] * c) + CarryMul(a, c, i - 1)) \div Base

\* a * c on Len(a) digits for a small multiplier 0 <= c < 2^15, wrapping
MulN(a, c) == [i \in 1..Len(a) |-> ((a[i] * c) + CarryMul(a, c, i - 1)) % Base]

RECURSIVE LessFrom(_, _, _)
LessFrom(a, b, i) ==
    IF i = 0 THEN FALSE
    ELSE IF a[i] # b[i] THEN a[i] < b[i]
    ELSE LessFrom(a, b, i - 1)

\* a < b
Less(a, b) == LessFrom(a, b, Len(a))

\* a <= b
Leq(a, b) == ~Less(b, a)

RECURSIVE RemFrom(_, _, _)
RemFrom(a, d, i) ==
    IF i > Len(a) THEN 0
    ELSE LET r  == RemFrom(a, d, i + 1)
             r1 == (r * 256 + (a[i] \div 256)) % d
         IN  (r1 * 256 + (a[i] % 256)) % d

\* a % d for a divisor 0 < d < 2^22, as an integer
ModN(a, d) == RemFrom(a, d, 1)

\* floor(a / 2)
HalfN(a) ==
    [i \in 1..Len(a) |->
        (a[i] \div 2) + (IF i < Len(a) THEN (a[i + 1] % 2) * (Base \div 2) ELSE 0)]

RECURSIVE BitLenInt(_)
BitLenInt(n) == IF n = 0 THEN 0 ELSE 1 + BitLenInt(n \div 2)

RECURSIVE TopDigit(_, _)
TopDigit(a, i) == IF i = 0 \/ a[i] # 0 THEN i ELSE TopDigit(a, i - 1)

\* number of significant bits of a
BitLen(a) ==
    LET t == TopDigit(a, Len(a))
    IN  IF t = 0 THEN 0 ELSE (16 * (t - 1)) + BitLenInt(a[t])

----------------------------------------------------------------------------
(* float64: uint64(float64(x) * 1.50)                                      *)

\* z rounded to 53 significant bits, ties to even (IEEE 754 binary64); z < 2^68
RoundTo53(z) ==
    LET L == BitLen(z)
    IN  IF L <= 53 THEN z
        ELSE LET p     == 2^(L - 53)
                 low   == z[1] % p
                 odd   == (z[1] \div p) % 2
                 trunc == [i \in 1..Len(z) |-> IF i = 1 THEN z[1] - low ELSE z[i]]
                 up    == low * 2 > p \/ (low * 2 = p /\ odd = 1)
             IN  IF up THEN AddN(trunc, [i \in 1..Len(z) |-> IF i = 1 THEN p ELSE 0])
                 ELSE trunc

\* float64(x), as the integer it is, on five digits (it can be 2^64)
Float64Of(x) == RoundTo53(x \o <<0>>)

\* float64(x) * 1.50 truncated toward zero, on five digits: the float64
\* product is 3 * float64(x) / 2 rounded to 53 significant bits
ScaleTrunc(x) == HalfN(RoundTo53(MulN(Float64Of(x), 3)))

\* what a float64 -> uint64 conversion yields when the value is 2^64 or more:
\* implementation-dependent (Go spec, Conversions); 0, 2^63 and 2^64 - 1 stand
\* for the values the builds produce
ConvOutOfRange == {Zero, <<0, 0, 0, Base \div 2>>, <<Base - 1, Base - 1, Base - 1, Base - 1>>}

\* the values uint64(float64(x) * 1.50) can take
ScaleResults(x) ==
    LET z == ScaleTrunc(x)
    IN  IF z[5] = 0 THEN {SubSeq(z, 1, 4)} ELSE ConvOutOfRange

----------------------------------------------------------------------------
(* program constants                                                       *)

ReservedInodes == 11          \* ext4 has 11 reserved inodes
BootSuperBlock == 2048        \* boot sector + super block is 2k
InlineSymlinkMax == 60        \* len(dstName) > 60 is not an inline symlink
DirBlocks == 3                \* blocks of a directory
AlignBlocks == 64             \* Align to 64 * blocksize
SleepHours == 100             \* time.Sleep(100 * time.Hour)
MaxFileSize == 134217728      \* All regular files/symlinks <= 128MB

(* bounds of the model                                                     *)

MaxCalls == 4                 \* method calls per behaviour

(* inputs                                                                  *)

\* e.BlockSize: zero, a value that is no power of two, the usual 4096
BlockSizes == {Zero, U64(3000), U64(4096)}

\* e.InodeSize: zero, the usual 256
InodeSizes == {Zero, U64(256)}

\* fileSize within the documented assumption: 0, a size that is no multiple of
\* a block, a multiple of both block sizes, the 128MB limit
FileSizes == {Zero, U64(10000), U64(1536000), U64(MaxFileSize)}

\* fileSize, any uint64: also 2^63, 2^64 - 8192 and 2^64 - 1
AnyFileSizes ==
    FileSizes \cup {<<0, 0, 0, Base \div 2>>,
                    <<Base - 8192, Base - 1, Base - 1, Base - 1>>,
                    <<Base - 1, Base - 1, Base - 1, Base - 1>>}

\* len(dstName) of a symlink
LinkLens == {0, InlineSymlinkMax, InlineSymlinkMax + 1, 5000}

AddOps == {"CalcRegFileSize", "CalcDirSize", "CalcSymlinkSize", "CalcHardlinkSize",
           "CalcCharDeviceSize", "CalcBlockDeviceSize", "CalcFIFOPipeSize",
           "CalcSocketSize", "CalcAddExAttrSize"}

----------------------------------------------------------------------------
(* the helpers of ext4.go                                                  *)

\* maxU64 with the comparison the wrong way round
maxU64_Min(x, y) == IF Less(y, x) THEN y ELSE x

maxU64(x, y) == IF Less(y, x) THEN x ELSE y

\* n % alignto as a uint64, for 0 < alignto < 2^22 (n % 0 panics: the callers
\* test for it, and every block size drawn keeps 64 * BlockSize below 2^22)
Rem64(n, alignto) == U64(ModN(n, ToInt(alignto)))

\* alignN without its n%alignto == 0 case: an aligned n gains a whole alignto
alignN_NoAlignedCase(n, alignto) == SubN(AddN(n, alignto), Rem64(n, alignto))

alignN(n, alignto) ==
    IF Rem64(n, alignto) = Zero THEN n
    ELSE SubN(AddN(n, alignto), Rem64(n, alignto))

\* the object's two counters
Obj == [totalSize |-> totalSize, numInodes |-> numInodes]

addInode(e) ==
    [e EXCEPT !.numInodes = AddN(@, One), !.totalSize = AddN(@, InodeSize)]

----------------------------------------------------------------------------
(* the state after construction: Ext4Fs{BlockSize: b, InodeSize: i}        *)

Init ==
    /\ BlockSize \in BlockSizes
    /\ InodeSize \in InodeSizes
    /\ totalSize = Zero
    /\ numInodes = Zero
    /\ pc = "idle"
    /\ panicked = FALSE
    /\ phase = "new"
    /\ dirty = FALSE
    /\ lastOp = "none"
    /\ lastArg = Zero
    /\ lastErr = "nil"
    /\ sizeInfo = [NumInodes |-> Zero, TotalSize |-> Zero]
    /\ slept = 0
    /\ before = [totalSize |-> Zero, numInodes |-> Zero, phase |-> "new"]
    /\ calls = 0

\* a method can be called: no call is in progress, the process is alive
Ready == pc = "idle" /\ ~panicked /\ calls < MaxCalls

\* history of a call: what the counters and the phase were when it was made
Called ==
    /\ before' = [totalSize |-> totalSize, numInodes |-> numInodes, phase |-> phase]
    /\ calls' = calls + 1

\* method op(arg) leaves the counters as e and returns nil
Returns(e, op, arg) ==
    /\ totalSize' = e.totalSize
    /\ numInodes' = e.numInodes
    /\ panicked' = FALSE
    /\ lastOp' = op
    /\ lastArg' = arg
    /\ lastErr' = "nil"
    /\ Called
    /\ UNCHANGED <<BlockSize, InodeSize, pc, slept>>

\* method op(arg) panics (integer divide by zero) with the counters as e
Panics(e, op, arg) ==
    /\ totalSize' = e.totalSize
    /\ numInodes' = e.numInodes
    /\ panicked' = TRUE
    /\ lastOp' = op
    /\ lastArg' = arg
    /\ Called
    /\ UNCHANGED <<BlockSize, InodeSize, pc, lastErr, slept>>

\* history of an add* call: it belongs between InitSizeContext and FinalizeSizeContext
AddHistory ==
    /\ phase' = phase
    /\ dirty' = (dirty \/ phase # "open")
    /\ UNCHANGED sizeInfo

InitSizeContext ==
    /\ Ready
    /\ LET e1 == [Obj EXCEPT !.numInodes = U64(ReservedInodes)]
           e2 == [e1 EXCEPT !.totalSize =
                     maxU64(AddN(U64(BootSuperBlock), MulN(InodeSize, ToInt(e1.numInodes))),
                            BlockSize)]
       IN  Returns(e2, "InitSizeContext", Zero)
    /\ phase' = "open"
    /\ dirty' = FALSE
    /\ UNCHANGED sizeInfo

CalcRegFileSize(fileSize) ==
    /\ Ready
    /\ LET e1 == addInode(Obj)
           e2 == [e1 EXCEPT !.totalSize = AddN(@, BlockSize)]
       IN  IF BlockSize = Zero
           THEN Panics(e2, "CalcRegFileSize", fileSize)
           ELSE Returns([e2 EXCEPT !.totalSize = AddN(@, alignN(fileSize, BlockSize))],
                        "CalcRegFileSize", fileSize)
    /\ AddHistory

CalcDirSize ==
    /\ Ready
    /\ LET e1 == addInode(Obj)
       IN  Returns([e1 EXCEPT !.totalSize = AddN(@, MulN(BlockSize, DirBlocks))],
                   "CalcDirSize", Zero)
    /\ AddHistory

\* CalcSymlinkSize inlining only targets below 60 bytes, as the type's comment has it
CalcSymlinkSize_InlineBelow60(dstLen) ==
    /\ Ready
    /\ LET e1 == addInode(Obj)
       IN  IF dstLen >= InlineSymlinkMax
           THEN IF BlockSize = Zero
                THEN Panics(e1, "CalcSymlinkSize", U64(dstLen))
                ELSE Returns([e1 EXCEPT !.totalSize = AddN(@, alignN(U64(dstLen), BlockSize))],
                             "CalcSymlinkSize", U64(dstLen))
           ELSE Returns(e1, "CalcSymlinkSize", U64(dstLen))
    /\ AddHistory

CalcSymlinkSize(dstLen) ==
    /\ Ready
    /\ LET e1 == addInode(Obj)
       IN  IF dstLen > InlineSymlinkMax
           THEN IF BlockSize = Zero
                THEN Panics(e1, "CalcSymlinkSize", U64(dstLen))
                ELSE Returns([e1 EXCEPT !.totalSize = AddN(@, alignN(U64(dstLen), BlockSize))],
                             "CalcSymlinkSize", U64(dstLen))
           ELSE Returns(e1, "CalcSymlinkSize", U64(dstLen))
    /\ AddHistory

\* CalcHardlinkSize counting an inode for the link as well
CalcHardlinkSize_AddsInode ==
    /\ Ready
    /\ Returns([addInode(Obj) EXCEPT !.totalSize = AddN(@, BlockSize)], "CalcHardlinkSize", Zero)
    /\ AddHistory

CalcHardlinkSize ==
    /\ Ready
    /\ Returns([Obj EXCEPT !.totalSize = AddN(@, BlockSize)], "CalcHardlinkSize", Zero)
    /\ AddHistory

CalcCharDeviceSize ==
    /\ Ready
    /\ Returns(addInode(Obj), "CalcCharDeviceSize", Zero)
    /\ AddHistory

CalcBlockDeviceSize ==
    /\ Ready
    /\ Returns(addInode(Obj), "CalcBlockDeviceSize", Zero)
    /\ AddHistory

CalcFIFOPipeSize ==
    /\ Ready
    /\ Returns(addInode(Obj), "CalcFIFOPipeSize", Zero)
    /\ AddHistory

CalcSocketSize ==
    /\ Ready
    /\ Returns(addInode(Obj), "CalcSocketSize", Zero)
    /\ AddHistory

CalcAddExAttrSize ==
    /\ Ready
    /\ Returns(Obj, "CalcAddExAttrSize", Zero)
    /\ AddHistory

\* FinalizeSizeContext with its alignment test inverted (== 0 for != 0)
FinalizeSizeContext_InvertedTest ==
    /\ Ready
    /\ \E t \in ScaleResults(totalSize), n \in ScaleResults(numInodes) :
          LET e1 == [totalSize |-> t, numInodes |-> n]
              a  == MulN(BlockSize, AlignBlocks)
          IN  IF a = Zero
              THEN Panics(e1, "FinalizeSizeContext", Zero) /\ phase' = phase
              ELSE /\ IF Rem64(e1.totalSize, a) = Zero
                      THEN Returns([e1 EXCEPT !.totalSize = alignN(@, a)],
                                   "FinalizeSizeContext", Zero)
                      ELSE Returns(e1, "FinalizeSizeContext", Zero)
                   /\ phase' = "final"
    /\ dirty' = (dirty \/ phase # "open")
    /\ UNCHANGED sizeInfo

\* FinalizeSizeContext aligning the total size before it scales it
FinalizeSizeContext_AlignFirst ==
    /\ Ready
    /\ LET a == MulN(BlockSize, AlignBlocks)
       IN  IF a = Zero
           THEN Panics(Obj, "FinalizeSizeContext", Zero) /\ phase' = phase
           ELSE /\ \E t \in ScaleResults(alignN(totalSize, a)), n \in ScaleResults(numInodes) :
                      Returns([totalSize |-> t, numInodes |-> n], "FinalizeSizeContext", Zero)
                /\ phase' = "final"
    /\ dirty' = (dirty \/ phase # "open")
    /\ UNCHANGED sizeInfo

FinalizeSizeContext ==
    /\ Ready
    /\ \E t \in ScaleResults(totalSize), n \in ScaleResults(numInodes) :
          LET e1 == [totalSize |-> t, numInodes |-> n]
              a  == MulN(BlockSize, AlignBlocks)
          IN  IF a = Zero
              THEN Panics(e1, "FinalizeSizeContext", Zero) /\ phase' = phase
              ELSE /\ IF Rem64(e1.totalSize, a) # Zero
                      THEN Returns([e1 EXCEPT !.totalSize = alignN(@, a)],
                                   "FinalizeSizeContext", Zero)
                      ELSE Returns(e1, "FinalizeSizeContext", Zero)
                   /\ phase' = "final"
    /\ dirty' = (dirty \/ phase # "open")
    /\ UNCHANGED sizeInfo

GetSizeInfo ==
    /\ Ready
    /\ sizeInfo' = [NumInodes |-> numInodes, TotalSize |-> totalSize]
    /\ Returns(Obj, "GetSizeInfo", Zero)
    /\ UNCHANGED <<phase, dirty>>

CleanupSizeContext ==
    /\ Ready
    /\ Returns(Obj, "CleanupSizeContext", Zero)
    /\ phase' = "new"
    /\ UNCHANGED <<dirty, sizeInfo>>

\* MakeFileSystem up to exec.Command("mkfs.ext4", ...).Run(), which blocks
MakeFileSystem ==
    /\ Ready
    /\ pc' = "mkfs"
    /\ UNCHANGED <<BlockSize, InodeSize, totalSize, numInodes, panicked, phase, dirty,
                   lastOp, lastArg, lastErr, sizeInfo, slept, before, calls>>

\* mkfs.ext4 exits with status 0: err == nil, return err
MkfsSucceeds ==
    /\ pc = "mkfs"
    /\ pc' = "idle"
    /\ slept' = 0
    /\ lastOp' = "MakeFileSystem"
    /\ lastArg' = Zero
    /\ lastErr' = "nil"
    /\ Called
    /\ UNCHANGED <<BlockSize, InodeSize, totalSize, numInodes, panicked, phase, dirty,
                   sizeInfo>>

\* mkfs.ext4 fails: err != nil, the failure is logged and time.Sleep begins
MkfsFails ==
    /\ pc = "mkfs"
    /\ pc' = "sleep"
    /\ UNCHANGED <<BlockSize, InodeSize, totalSize, numInodes, panicked, phase, dirty,
                   lastOp, lastArg, lastErr, sizeInfo, slept, before, calls>>

\* time.Sleep(100 * time.Hour) is over: return err
SleepReturns ==
    /\ pc = "sleep"
    /\ pc' = "idle"
    /\ slept' = SleepHours
    /\ lastOp' = "MakeFileSystem"
    /\ lastArg' = Zero
    /\ lastErr' = "err"
    /\ Called
    /\ UNCHANGED <<BlockSize, InodeSize, totalSize, numInodes, panicked, phase, dirty,
                   sizeInfo>>

\* MakeBasicFileSystem returns what mkfs.ext4 -F returned
MakeBasicFileSystem(result) ==
    /\ Ready
    /\ lastOp' = "MakeBasicFileSystem"
    /\ lastArg' = Zero
    /\ lastErr' = result
    /\ Called
    /\ UNCHANGED <<BlockSize, InodeSize, totalSize, numInodes, pc, panicked, phase, dirty,
                   sizeInfo, slept>>

\* every method but CalcRegFileSize
Others ==
    \/ InitSizeContext
    \/ CalcDirSize
    \/ \E dstLen \in LinkLens : CalcSymlinkSize(dstLen)
    \/ CalcHardlinkSize
    \/ CalcCharDeviceSize
    \/ CalcBlockDeviceSize
    \/ CalcFIFOPipeSize
    \/ CalcSocketSize
    \/ CalcAddExAttrSize
    \/ FinalizeSizeContext
    \/ GetSizeInfo
    \/ CleanupSizeContext
    \/ MakeFileSystem
    \/ MkfsSucceeds
    \/ MkfsFails
    \/ SleepReturns
    \/ \E result \in {"nil", "err"} : MakeBasicFileSystem(result)

\* the methods called in any order, files within the documented 128MB
Next ==
    \/ \E fileSize \in FileSizes : CalcRegFileSize(fileSize)
    \/ Others

Spec == Init /\ [][Next]_vars

\* the same with any uint64 as a file size
NextAny ==
    \/ \E fileSize \in AnyFileSizes : CalcRegFileSize(fileSize)
    \/ Others

SpecAny == Init /\ [][NextAny]_vars

----------------------------------------------------------------------------
(* what the claims are stated with                                         *)

\* n rounded up to the next multiple of m, for integers n >= 0 and m > 0
RoundUp(n, m) == ((n + m - 1) \div m) * m

\* floor(1.5 * x) for a uint64 x, in exact integer arithmetic on five digits
Floor15(x) == HalfN(MulN(x \o <<0>>, 3))

\* r is s rounded up to the next multiple of m (digit sequences of one length)
IsRoundUp(r, s, m) ==
    /\ ModN(r, m) = 0
    /\ Leq(s, r)
    /\ Less(SubN(r, s), [i \in 1..Len(r) |-> IF i = 1 THEN m % Base ELSE IF i = 2 THEN m \div Base ELSE 0])

\* the sum a + b does not fit Len(a) digits
AddOverflows(a, b) == CarryAdd(a, b, Len(a)) = 1

\* c is a + b, and the sum fits a uint64
Sum(a, b, c) == ~AddOverflows(a, b) /\ c = AddN(a, b)

\* block and inode sizes mkfs.ext4 accepts: powers of two, 1024..65536 and 128..BlockSize
SupportedConfig ==
    /\ BlockSize \in {U64(2^k) : k \in 10..16}
    /\ InodeSize \in {U64(2^k) : k \in 7..16}
    /\ Leq(InodeSize, BlockSize)

\* C1: after InitSizeContext, any add* calls and FinalizeSizeContext, the total
\* size GetSizeInfo returns is a multiple of 64 x BlockSize, for every block
\* size and inode size
C1_Aligned ==
    (lastOp = "GetSizeInfo" /\ phase = "final" /\ ~dirty) =>
        /\ BlockSize # Zero
        /\ ModN(sizeInfo.TotalSize, 64 * ToInt(BlockSize)) = 0

\* C1 happens: a size was returned after Init, at least one entry and Finalize,
\* with a block size that is no power of two
C1_Witness ==
    /\ lastOp = "GetSizeInfo" /\ phase = "final" /\ ~dirty
    /\ BlockSize = U64(3000)
    /\ Less(U64(16), sizeInfo.NumInodes)

\* C2: when mkfs.ext4 fails, MakeFileSystem returns the error without any long
\* sleep: it is never sleeping, and it has not slept when it returns the error
C2_FailureReturnsAtOnce ==
    /\ pc # "sleep"
    /\ (lastOp = "MakeFileSystem" /\ lastErr = "err") => slept = 0

\* C3: InitSizeContext returns an error whenever BlockSize or InodeSize is zero
\* or not supported by the format, and nil only for supported values
C3_InitRejectsBadConfig ==
    lastOp = "InitSizeContext" => (lastErr = "nil" <=> SupportedConfig)

\* C4: right after InitSizeContext the inode count is 11 and the total size is
\* max(2048 + 11 x InodeSize, BlockSize), whatever the counters were before
C4_Baseline ==
    lastOp = "InitSizeContext" =>
        LET i == ToInt(InodeSize)
            b == ToInt(BlockSize)
        IN  /\ numInodes = U64(11)
            /\ totalSize = U64(IF 2048 + 11 * i >= b THEN 2048 + 11 * i ELSE b)

\* C4 happens: InitSizeContext ran on counters that were not zero
C4_Witness ==
    /\ lastOp = "InitSizeContext"
    /\ before.totalSize # Zero /\ before.numInodes # Zero
    /\ before.totalSize # totalSize

\* C5: between InitSizeContext and FinalizeSizeContext no add* call, whatever
\* its arguments, decreases the total size or the inode count
C5_Monotone ==
    (lastOp \in AddOps /\ before.phase = "open") =>
        /\ Leq(before.totalSize, totalSize)
        /\ Leq(before.numInodes, numInodes)

\* C6: before finalization CalcHardlinkSize adds exactly one BlockSize to the
\* total size and leaves the inode count unchanged
C6_Hardlink ==
    (lastOp = "CalcHardlinkSize" /\ before.phase # "final") =>
        /\ Sum(before.totalSize, BlockSize, totalSize)
        /\ numInodes = before.numInodes

\* C6 happens: a hardlink was added after another entry
C6_Witness ==
    /\ lastOp = "CalcHardlinkSize" /\ before.phase = "open"
    /\ BlockSize = U64(4096)
    /\ Less(U64(11), before.numInodes)

C8_RegFile ==
    (lastOp = "CalcRegFileSize" /\ ~panicked /\ before.phase # "final") =>
        LET b == ToInt(BlockSize)
            i == ToInt(InodeSize)
            n == ToInt(lastArg)
        IN  /\ Sum(before.numInodes, One, numInodes)
            /\ Sum(before.totalSize, U64(i + b + RoundUp(n, b)), totalSize)
            /\ (b = 4096 /\ i = 256 /\ n = 10000) => i + b + RoundUp(n, b) = 16640

\* C8 happens: a file whose size is an exact multiple of BlockSize was added
C8_Witness ==
    /\ lastOp = "CalcRegFileSize" /\ ~panicked /\ before.phase = "open"
    /\ lastArg = U64(1536000)
    /\ BlockSize = U64(4096) /\ InodeSize = U64(256)

AlignThenScale(T) ==
    LET m == 64 * ToInt(BlockSize)
    IN  Floor15(AddN(T, U64((m - ModN(T, m)) % m)))

C10_ReadOnlyAfterFinalize ==
    (before.phase = "final" /\
     lastOp \in AddOps \cup {"FinalizeSizeContext", "GetSizeInfo", "MakeFileSystem"}) =>
        /\ totalSize = before.totalSize
        /\ numInodes = before.numInodes

====
